---- MODULE Spec2Model ----
(***************************************************************************)
(* Model of the QQ Bot API client (src/index.ts): the access-token cache,  *)
(* the msg_seq tracker, the request wrapper and the message-send           *)
(* functions.                                                              *)
(*                                                                         *)
(* The tracker is a JavaScript Map, which iterates in insertion order and  *)
(* keeps a key's position when its value is overwritten; it is modelled as *)
(* a sequence of [id, seq] records without duplicate ids.                  *)
(***************************************************************************)
EXTENDS Integers, Sequences, FiniteSets, TLC

(* ------------------------------ bounds -------------------------------- *)

\* The tracker keeps at most TRACKER_LIMIT entries after a call and deletes
\* EVICT_COUNT of them when it overflows.  The source uses 1000 and 500
\* (src/index.ts:97,99); the model scales both down and states every
\* property in terms of the two names.
TRACKER_LIMIT == 3

EVICT_COUNT == 2

\* Direct getNextMsgSeq calls made with one identifier.
MaxCalls == 3

\* Largest msg_seq a reply send may be given.
MaxSeq == 2

\* Advances of the clock (Date.now()) in one behaviour.
MaxTicks == 3

\* Characters after the prefix of an uploadImage argument.
MaxTail == 3

\* Concurrent callers of the asynchronous functions.
Callers == {1, 2}

\* Clock advances in ms: one that stays inside a 600 s credential's
\* freshness window by 1 ms, the 1 ms that leaves it, and the rest of the
\* way to the window of a default-lifetime credential.
TickSet == {1, 299999, 6600000}

\* Message identifiers.  "" is the empty string, which the send functions
\* treat as "no msgId" (it is falsy).
MsgIds == {"", "m1", "m2", "m3", "m4"}

(* ----------------------------- variables ------------------------------ *)

VARIABLES
  msgSeqTracker,  \* src/index.ts:85, sequence of [id, seq] in insertion order
  seqCalls,       \* history: number of getNextMsgSeq calls made per identifier
  seqSince,       \* history: calls per identifier since it was last untracked
  lastSeq,        \* history: the most recent getNextMsgSeq call and its result
  cachedToken,    \* src/index.ts:33, Null or [token, expiresAt]
  now,            \* Date.now() in ms
  ticks,          \* clock advances made
  tok,            \* per caller: where its getAccessToken call stands and how the last one ended
  trip,           \* history: progress of a getAccessToken / clearTokenCache / getAccessToken round trip
  snd,            \* per caller: the send it is in, the request apiRequest issued, how the last one ended
  api,            \* one apiRequest call in full: request, response, result
  prevSeq,        \* history: the call before the last one, if the last call evicted
                  \* the identifier it had just incremented
  burnt,          \* history: the most recent reply send that failed, and what
                  \* happened to its identifier since it took its number
  race            \* history: arguments and order of the getAccessToken calls

trackerVars == <<msgSeqTracker, seqCalls, seqSince, lastSeq>>

tokenVars == <<cachedToken, now, ticks, tok, trip>>

trackerHist == <<seqCalls, seqSince, lastSeq>>

vars == <<msgSeqTracker, seqCalls, seqSince, lastSeq, cachedToken, now, ticks, tok, trip, snd,
          api, prevSeq, burnt, race>>

(* ------------------------- the msg_seq tracker ------------------------ *)

Min(a, b) == IF a <= b THEN a ELSE b

\* Array.from(msgSeqTracker.keys())
TrackerKeys(tr) == [i \in 1..Len(tr) |-> tr[i].id]

TrackerHas(tr, id) == \E i \in 1..Len(tr) : tr[i].id = id

TrackerIndex(tr, id) == CHOOSE i \in 1..Len(tr) : tr[i].id = id

\* msgSeqTracker.get(msgId) ?? 0
TrackerGet(tr, id) == IF TrackerHas(tr, id) THEN tr[TrackerIndex(tr, id)].seq ELSE 0

\* mutant: setting an existing key moves it to the end, as a
\* least-recently-used order would
TrackerSetMovingToEnd(tr, id, v) ==
  Append(SelectSeq(tr, LAMBDA e : e.id # id), [id |-> id, seq |-> v])

\* msgSeqTracker.set(msgId, next): an existing key keeps its position
TrackerSet(tr, id, v) ==
  IF TrackerHas(tr, id)
    THEN [tr EXCEPT ![TrackerIndex(tr, id)].seq = v]
    ELSE Append(tr, [id |-> id, seq |-> v])

\* mutant: the sweep empties the map
TrackerEvictEverything(tr) ==
  IF Len(tr) > TRACKER_LIMIT THEN << >> ELSE tr

\* mutant: the sweep deletes the newest entries instead of the oldest
TrackerEvictNewest(tr) ==
  IF Len(tr) > TRACKER_LIMIT
    THEN SubSeq(tr, 1, Len(tr) - Min(EVICT_COUNT, Len(tr)))
    ELSE tr

\* mutant: the sweep's loop runs once too often (i <= 500)
TrackerEvictOneMore(tr) ==
  IF Len(tr) > TRACKER_LIMIT
    THEN SubSeq(tr, Min(EVICT_COUNT + 1, Len(tr)) + 1, Len(tr))
    ELSE tr

\* if (size > 1000) delete keys[0..499]
TrackerEvict(tr) ==
  IF Len(tr) > TRACKER_LIMIT
    THEN SubSeq(tr, Min(EVICT_COUNT, Len(tr)) + 1, Len(tr))
    ELSE tr

\* mutant: the call returns the counter it read, not the incremented one
GetNextMsgSeqRetCurrent(tr, id) == TrackerGet(tr, id)

\* the value getNextMsgSeq(msgId) returns
GetNextMsgSeqRet(tr, id) == TrackerGet(tr, id) + 1

\* the tracker getNextMsgSeq(msgId) leaves behind
GetNextMsgSeqMap(tr, id) == TrackerEvict(TrackerSet(tr, id, GetNextMsgSeqRet(tr, id)))

NoSeqCall == [called |-> FALSE, id |-> "", val |-> 0]

\* a direct call of the exported getNextMsgSeq
GetNextMsgSeq(id) ==
  /\ seqCalls[id] < MaxCalls
  /\ msgSeqTracker' = GetNextMsgSeqMap(msgSeqTracker, id)
  /\ lastSeq' = [called |-> TRUE, id |-> id, val |-> GetNextMsgSeqRet(msgSeqTracker, id)]
  /\ seqCalls' = [seqCalls EXCEPT ![id] = @ + 1]
  /\ seqSince' = [j \in MsgIds |->
                    IF j = id THEN (IF TrackerHas(msgSeqTracker, id) THEN seqSince[id] + 1 ELSE 1)
                    ELSE IF TrackerHas(msgSeqTracker', j) THEN seqSince[j]
                    ELSE 0]
  /\ UNCHANGED <<tokenVars, snd>>

TrackerInit ==
  /\ msgSeqTracker = << >>
  /\ seqCalls = [j \in MsgIds |-> 0]
  /\ seqSince = [j \in MsgIds |-> 0]
  /\ lastSeq = NoSeqCall


(* --------------------------- the token cache -------------------------- *)

\* cachedToken = null
Null == [null |-> TRUE]

\* 5 * 60 * 1000, the refresh margin of src/index.ts:40
REFRESH_MARGIN_MS == 5 * 60 * 1000

\* Bodies the token endpoint may answer with once parsed: an error object
\* without access_token, an empty access_token, and a token with or without
\* expires_in (seconds).
TokenBodies ==
  {[message |-> "invalid appid"], [access_token |-> ""]}
    \cup {[access_token |-> t] : t \in {"T1", "T2"}}
    \cup {[access_token |-> t, expires_in |-> e] : t \in {"T1", "T2"}, e \in {100, 600}}

\* What fetch resolves with: a body response.json() rejects, or one it parses.
TokenResponses ==
  {[parses |-> FALSE, data |-> [raw |-> "<html>"]]}
    \cup {[parses |-> TRUE, data |-> d] : d \in TokenBodies}

NoResponse == [parses |-> FALSE, data |-> [raw |-> ""]]

\* mutant: the comparison is the wrong way round
CacheIsFreshFlipped(cache, t) ==
  /\ cache # Null
  /\ t > cache.expiresAt - REFRESH_MARGIN_MS

\* mutant: the time is compared with <=
CacheIsFreshInclusive(cache, t) ==
  /\ cache # Null
  /\ t <= cache.expiresAt - REFRESH_MARGIN_MS

\* cachedToken && Date.now() < cachedToken.expiresAt - 5 * 60 * 1000
CacheIsFresh(cache, t) ==
  /\ cache # Null
  /\ t < cache.expiresAt - REFRESH_MARGIN_MS

\* data.access_token is truthy
HasAccessToken(data) ==
  /\ "access_token" \in DOMAIN data
  /\ data.access_token # ""

\* mutant: a missing expires_in counts as one hour
ExpiresInHour(data) ==
  IF "expires_in" \in DOMAIN data THEN data.expires_in ELSE 3600

\* data.expires_in ?? 7200
ExpiresIn(data) ==
  IF "expires_in" \in DOMAIN data THEN data.expires_in ELSE 7200

\* how a refresh ends once fetch has resolved with resp
RefreshOutcome(resp) ==
  IF ~resp.parses THEN "parse"
  ELSE IF ~HasAccessToken(resp.data) THEN "auth"
  ELSE "fresh"

\* mutant: a refresh does not overwrite a credential that is still fresh
CacheAfterRefreshFirstWins(cache, resp, t) ==
  IF RefreshOutcome(resp) = "fresh" /\ ~CacheIsFresh(cache, t)
    THEN [token |-> resp.data.access_token,
          expiresAt |-> t + ExpiresIn(resp.data) * 1000]
    ELSE cache

\* mutant: a refresh replaces the token and keeps the expiry of a credential
\* that is already cached
CacheAfterRefreshKeepingExpiry(cache, resp, t) ==
  IF RefreshOutcome(resp) = "fresh"
    THEN [token |-> resp.data.access_token,
          expiresAt |-> IF cache = Null THEN t + ExpiresIn(resp.data) * 1000
                        ELSE cache.expiresAt]
    ELSE cache

\* mutant: a refresh that fails drops the cached credential
CacheAfterRefreshDropping(cache, resp, t) ==
  IF RefreshOutcome(resp) = "fresh"
    THEN [token |-> resp.data.access_token,
          expiresAt |-> t + ExpiresIn(resp.data) * 1000]
    ELSE Null

\* the cache after the refresh has processed resp at time t
CacheAfterRefresh(cache, resp, t) ==
  IF RefreshOutcome(resp) = "fresh"
    THEN [token |-> resp.data.access_token,
          expiresAt |-> t + ExpiresIn(resp.data) * 1000]
    ELSE cache

IdleCaller == [pc |-> "idle", out |-> "none", ret |-> "", reqs |-> 0, resp |-> NoResponse]

NoTrip == [stage |-> 0, who |-> 0, t1 |-> ""]

\* the round trip after caller c has ended a call with outcome out and token t
TripAfterReturn(c, out, t) ==
  IF trip.stage = 3 /\ trip.who = c THEN [trip EXCEPT !.stage = 4]
  ELSE IF trip.stage = 3 THEN trip
  ELSE IF out \in {"cached", "fresh"} THEN [stage |-> 1, who |-> c, t1 |-> t]
  ELSE NoTrip

\* getAccessToken up to its first await: the cache check and, on a miss,
\* the fetch of the token endpoint
GetAccessTokenCall(c) ==
  /\ tok[c].pc = "idle"
  /\ IF CacheIsFresh(cachedToken, now)
       THEN /\ tok' = [tok EXCEPT ![c] = [IdleCaller EXCEPT !.out = "cached",
                                                          !.ret = cachedToken.token]]
            /\ trip' = IF trip.stage = 2 THEN [trip EXCEPT !.stage = 4, !.who = c]
                       ELSE TripAfterReturn(c, "cached", cachedToken.token)
       ELSE /\ tok' = [tok EXCEPT ![c] = [IdleCaller EXCEPT !.pc = "fetch", !.reqs = 1]]
            /\ trip' = IF trip.stage = 2 THEN [trip EXCEPT !.stage = 3, !.who = c]
                       ELSE IF trip.stage = 3 THEN trip
                       ELSE NoTrip
  /\ UNCHANGED <<cachedToken, now, ticks>>

\* await fetch(TOKEN_URL) rejects
FetchTokenFails(c) ==
  /\ tok[c].pc = "fetch"
  /\ tok' = [tok EXCEPT ![c].pc = "idle", ![c].out = "network"]
  /\ trip' = TripAfterReturn(c, "network", "")
  /\ UNCHANGED <<cachedToken, now, ticks>>

\* await fetch(TOKEN_URL) resolves with a response
FetchTokenResolves(c) ==
  /\ tok[c].pc = "fetch"
  /\ \E r \in TokenResponses : tok' = [tok EXCEPT ![c].pc = "json", ![c].resp = r]
  /\ trip' = IF trip.stage = 3 THEN trip ELSE NoTrip
  /\ UNCHANGED <<cachedToken, now, ticks>>

\* await response.json() settles and the rest of getAccessToken runs
TokenJsonSettles(c) ==
  /\ tok[c].pc = "json"
  /\ cachedToken' = CacheAfterRefresh(cachedToken, tok[c].resp, now)
  /\ LET out == RefreshOutcome(tok[c].resp) IN
       /\ tok' = [tok EXCEPT ![c].pc = "idle",
                             ![c].out = out,
                             ![c].ret = IF out = "fresh" THEN cachedToken'.token ELSE ""]
       /\ trip' = TripAfterReturn(c, out, IF out = "fresh" THEN cachedToken'.token ELSE "")
  /\ UNCHANGED <<now, ticks>>

\* clearTokenCache()
ClearTokenCache ==
  /\ cachedToken' = Null
  /\ trip' = IF trip.stage = 1 THEN [trip EXCEPT !.stage = 2]
             ELSE IF trip.stage = 3 THEN trip
             ELSE IF trip.stage = 4 /\ tok[trip.who].out \in {"cached", "fresh"}
               THEN [stage |-> 2, who |-> trip.who, t1 |-> tok[trip.who].ret]
             ELSE NoTrip
  /\ UNCHANGED <<now, ticks, tok>>

\* time passes
Tick ==
  /\ ticks < MaxTicks
  /\ \E d \in TickSet : now' = now + d
  /\ ticks' = ticks + 1
  /\ trip' = IF trip.stage = 4 THEN NoTrip ELSE trip
  /\ UNCHANGED <<cachedToken, tok>>

TokenInit ==
  /\ cachedToken = Null
  /\ now = 0
  /\ ticks = 0
  /\ tok = [c \in Callers |-> IdleCaller]
  /\ trip = NoTrip

TokenNext ==
  \/ \E c \in Callers : GetAccessTokenCall(c)
  \/ \E c \in Callers : FetchTokenFails(c)
  \/ \E c \in Callers : FetchTokenResolves(c)
  \/ \E c \in Callers : TokenJsonSettles(c)
  \/ ClearTokenCache
  \/ Tick

(* ------------------- apiRequest and the send functions ----------------- *)

\* arguments of a text send: content, and msgId when the caller passes one
TextArgs ==
  {[content |-> "hi"]} \cup {[content |-> "hi", msgId |-> m] : m \in MsgIds}

\* msgId ? ... : ...   (undefined and "" are falsy)
HasMsgId(args) ==
  /\ "msgId" \in DOMAIN args
  /\ args.msgId # ""

\* mutant: every text send is numbered 1, as the image sends are
ReplySeqOne(tr, args) == 1

\* mutant: a send without msgId is numbered 0
ReplySeqZero(tr, args) ==
  IF HasMsgId(args) THEN GetNextMsgSeqRet(tr, args.msgId) ELSE 0

\* const msgSeq = msgId ? getNextMsgSeq(msgId) : 1
ReplySeq(tr, args) ==
  IF HasMsgId(args) THEN GetNextMsgSeqRet(tr, args.msgId) ELSE 1

\* mutant: a reply stores its number only once the request has succeeded,
\* so a failed reply stores nothing
ReplyTrackerUncommitted(tr, args) == tr

\* the tracker after   msgId ? getNextMsgSeq(msgId) : 1
ReplyTracker(tr, args) ==
  IF HasMsgId(args) THEN GetNextMsgSeqMap(tr, args.msgId) ELSE tr

\* ...(msgId ? { msg_id: msgId } : {})  spread into a body
WithMsgId(body, args) ==
  IF HasMsgId(args)
    THEN [f \in DOMAIN body \cup {"msg_id"} |->
            IF f = "msg_id" THEN args.msgId ELSE body[f]]
    ELSE body

\* body of sendC2CMessage and sendGroupMessage
ReplyTextBody(tr, args) ==
  WithMsgId([content |-> args.content, msg_type |-> 0, msg_seq |-> ReplySeq(tr, args)], args)

\* mutant: the channel text send numbers its replies like the other surfaces
ChannelTextBodySeq(args) ==
  WithMsgId([content |-> args.content, msg_seq |-> 1], args)

\* body of sendChannelMessage
ChannelTextBody(args) ==
  WithMsgId([content |-> args.content], args)

\* body of sendProactiveC2CMessage and sendProactiveGroupMessage
ProactiveTextBody(args) ==
  [content |-> args.content, msg_type |-> 0]

\* body of sendChannelImageMessage; content is the serialized segment list
ChannelImageBody(args) ==
  [msg_id |-> "", content |-> <<[type |-> 7, data |-> [file |-> args.imageUuid]]>>]

\* Bodies res.json() may yield: objects with and without a message field,
\* and the JSON value null.
ApiBodies ==
  {[id |-> "r1"], [url |-> "wss://g"], [message |-> "bad request", code |-> 11], [code |-> 11], Null}

\* What fetch resolves with for an API call: the status class and a body
\* that parses or not.
ApiResponses ==
  {[parses |-> FALSE, ok |-> k, data |-> [raw |-> "<html>"]] : k \in BOOLEAN}
    \cup {[parses |-> TRUE, ok |-> k, data |-> d] : k \in BOOLEAN, d \in ApiBodies}

\* how apiRequest ends once fetch has resolved with r; on a non-ok status
\* error.message is read from the parsed body, which throws a TypeError
\* when the body is null
ApiOutcome(r) ==
  IF ~r.parses THEN "parse"
  ELSE IF ~r.ok THEN (IF r.data = Null THEN "typeerror" ELSE "api")
  ELSE "ok"

NoCall == [fn |-> "", args |-> [content |-> ""]]

NoRequest == [method |-> "", path |-> "", body |-> [content |-> ""]]

IdleSender == [pc |-> "idle", call |-> NoCall, req |-> NoRequest, out |-> "none"]

\* apiRequest(accessToken, "POST", path, body) up to its await of fetch
StartRequest(c, fn, args, path, body) ==
  /\ snd[c].pc = "idle"
  /\ snd' = [snd EXCEPT ![c] = [pc |-> "fetch",
                                call |-> [fn |-> fn, args |-> args],
                                req |-> [method |-> "POST", path |-> path, body |-> body],
                                out |-> "none"]]
  /\ UNCHANGED <<tokenVars, trackerHist>>

SendC2CMessage(c, args) ==
  /\ ReplySeq(msgSeqTracker, args) <= MaxSeq
  /\ StartRequest(c, "sendC2CMessage", args, "/v2/users/u1/messages",
                  ReplyTextBody(msgSeqTracker, args))
  /\ msgSeqTracker' = ReplyTracker(msgSeqTracker, args)

SendChannelMessage(c, args) ==
  /\ StartRequest(c, "sendChannelMessage", args, "/channels/c1/messages",
                  ChannelTextBody(args))
  /\ UNCHANGED msgSeqTracker

SendGroupMessage(c, args) ==
  /\ ReplySeq(msgSeqTracker, args) <= MaxSeq
  /\ StartRequest(c, "sendGroupMessage", args, "/v2/groups/g1/messages",
                  ReplyTextBody(msgSeqTracker, args))
  /\ msgSeqTracker' = ReplyTracker(msgSeqTracker, args)

SendProactiveC2CMessage(c, args) ==
  /\ StartRequest(c, "sendProactiveC2CMessage", args, "/v2/users/u1/messages",
                  ProactiveTextBody(args))
  /\ UNCHANGED msgSeqTracker

SendProactiveGroupMessage(c, args) ==
  /\ StartRequest(c, "sendProactiveGroupMessage", args, "/v2/groups/g1/messages",
                  ProactiveTextBody(args))
  /\ UNCHANGED msgSeqTracker

SendChannelImageMessage(c, args) ==
  /\ StartRequest(c, "sendChannelImageMessage", args, "/channels/c1/messages",
                  ChannelImageBody(args))
  /\ UNCHANGED msgSeqTracker

\* the request of caller c settles and the rest of apiRequest runs: fetch
\* rejects, or it resolves with a response whose body res.json() parses or
\* not.  apiRequest touches no shared state after it has issued the request,
\* so its two awaits are taken in one step.
ApiRequestSettles(c) ==
  /\ snd[c].pc = "fetch"
  /\ \/ snd' = [snd EXCEPT ![c] = [IdleSender EXCEPT !.out = "network"]]
     \/ \E r \in ApiResponses :
          snd' = [snd EXCEPT ![c] = [IdleSender EXCEPT !.out = ApiOutcome(r)]]
  /\ UNCHANGED <<msgSeqTracker, tokenVars, trackerHist>>

SendInit == snd = [c \in Callers |-> IdleSender]

SendNext ==
  \/ \E c \in Callers, a \in TextArgs : SendC2CMessage(c, a)
  \/ \E c \in Callers, a \in TextArgs : SendChannelMessage(c, a)
  \/ \E c \in Callers, a \in TextArgs : SendGroupMessage(c, a)
  \/ \E c \in Callers : SendProactiveC2CMessage(c, [content |-> "hi"])
  \/ \E c \in Callers : SendProactiveGroupMessage(c, [content |-> "hi"])
  \/ \E c \in Callers : SendChannelImageMessage(c, [imageUuid |-> "img1"])
  \/ \E c \in Callers : ApiRequestSettles(c)

(* ------------------------------ uploadImage --------------------------- *)

\* Strings whose characters matter are sequences of one-character strings.
HTTP == <<"h", "t", "t", "p">>

DATA == <<"d", "a", "t", "a", ":">>

RECURSIVE SeqsUpTo(_, _)
\* all sequences over alphabet of length at most n
SeqsUpTo(alphabet, n) ==
  IF n = 0 THEN {<< >>}
  ELSE LET shorter == SeqsUpTo(alphabet, n - 1)
       IN shorter \cup {Append(t, ch) : t \in shorter, ch \in alphabet}

\* imageData arguments: a prefix that is, or almost is, "http" or "data:",
\* followed by payload characters and commas
ImageInputs ==
  {pre \o tail :
     pre \in {<< >>, HTTP, DATA, <<"h", "t", "t">>, <<"d", "a", "t", "a">>},
     tail \in SeqsUpTo({"A", ","}, MaxTail)}

\* s.startsWith(p)
StartsWith(s, p) ==
  /\ Len(s) >= Len(p)
  /\ SubSeq(s, 1, Len(p)) = p

\* positions of "," in s
Commas(s) == {i \in 1..Len(s) : s[i] = ","}

\* the smallest element of a non-empty set of numbers
Least(S) == CHOOSE i \in S : \A j \in S : i <= j

\* the empty object {}
EmptyObject == [f \in {} |-> << >>]

\* { file_data: s.split(",")[1] } once serialized: split(",")[1] is the
\* piece between the first and the second comma, and undefined, which
\* JSON.stringify leaves out, when s has no comma
DataUriPayload(s) ==
  IF Commas(s) = {} THEN EmptyObject
  ELSE LET first == Least(Commas(s))
           later == {i \in Commas(s) : i > first}
           stop == IF later = {} THEN Len(s) + 1 ELSE Least(later)
       IN [file_data |-> SubSeq(s, first + 1, stop - 1)]

\* the payload uploadImage builds, as JSON.stringify sends it
UploadPayload(imageData) ==
  IF StartsWith(imageData, HTTP) THEN [url |-> imageData]
  ELSE IF StartsWith(imageData, DATA) THEN DataUriPayload(imageData)
  ELSE [file_data |-> imageData]

(* --------------------- one apiRequest call in full --------------------- *)

\* text arguments used when the call is followed in full
ApiTextArgs ==
  {[content |-> "hi"], [content |-> "hi", msgId |-> "m1"], [content |-> "hi", msgId |-> ""]}

ImageArgs == {[imageUuid |-> "img1"]}

UploadArgs == {[imageData |-> d] : d \in ImageInputs}

\* body of sendC2CImageMessage and sendGroupImageMessage
NumberedImageBody(args) ==
  [msg_type |-> 7, msg_seq |-> 1, content |-> [k1 |-> [k1 |-> args.imageUuid]]]

\* method, path and body each exported function hands to apiRequest
DispatchRequest(fn, args, tr) ==
  CASE fn = "getGatewayUrl" ->
         [method |-> "GET", path |-> "/gateway"]
    [] fn = "sendC2CMessage" ->
         [method |-> "POST", path |-> "/v2/users/u1/messages", body |-> ReplyTextBody(tr, args)]
    [] fn = "sendChannelMessage" ->
         [method |-> "POST", path |-> "/channels/c1/messages", body |-> ChannelTextBody(args)]
    [] fn = "sendGroupMessage" ->
         [method |-> "POST", path |-> "/v2/groups/g1/messages", body |-> ReplyTextBody(tr, args)]
    [] fn = "sendProactiveC2CMessage" ->
         [method |-> "POST", path |-> "/v2/users/u1/messages", body |-> ProactiveTextBody(args)]
    [] fn = "sendProactiveGroupMessage" ->
         [method |-> "POST", path |-> "/v2/groups/g1/messages", body |-> ProactiveTextBody(args)]
    [] fn = "uploadImage" ->
         [method |-> "POST", path |-> "/v2/assets", body |-> UploadPayload(args.imageData)]
    [] fn = "sendC2CImageMessage" ->
         [method |-> "POST", path |-> "/v2/users/u1/messages", body |-> NumberedImageBody(args)]
    [] fn = "sendChannelImageMessage" ->
         [method |-> "POST", path |-> "/channels/c1/messages", body |-> ChannelImageBody(args)]
    [] fn = "sendGroupImageMessage" ->
         [method |-> "POST", path |-> "/v2/groups/g1/messages", body |-> NumberedImageBody(args)]

\* the tracker after the synchronous part of an exported function
DispatchTracker(fn, args, tr) ==
  IF fn \in {"sendC2CMessage", "sendGroupMessage"} THEN ReplyTracker(tr, args) ELSE tr

\* JSON.stringify(data)
Stringify(data) == [json |-> data]

\* the error apiRequest throws, or the body it returns, once fetch has
\* resolved with r for a request to path
ApiResult(r, path) ==
  CASE ApiOutcome(r) = "parse" ->
         [kind |-> "parse", path |-> path, detail |-> "Failed to parse response"]
    [] ApiOutcome(r) = "api" ->
         [kind |-> "api", path |-> path,
          detail |-> IF "message" \in DOMAIN r.data THEN r.data.message ELSE Stringify(r.data)]
    [] ApiOutcome(r) = "typeerror" ->
         [kind |-> "typeerror", detail |-> "Cannot read properties of null"]
    [] ApiOutcome(r) = "ok" ->
         [kind |-> "ok", value |-> r.data]

\* undefined
Undefined == [undefined |-> TRUE]

\* what the exported function makes of apiRequest's result: the send
\* functions pass it on, getGatewayUrl returns data.url, uploadImage data.id
DispatchResult(fn, res) ==
  IF res.kind # "ok" \/ fn \notin {"getGatewayUrl", "uploadImage"} THEN res
  ELSE IF res.value = Null THEN [kind |-> "typeerror", detail |-> "Cannot read properties of null"]
  ELSE LET f == IF fn = "getGatewayUrl" THEN "url" ELSE "id"
       IN [kind |-> "ok", value |-> IF f \in DOMAIN res.value THEN res.value[f] ELSE Undefined]

NoApiResponse == [parses |-> FALSE, ok |-> FALSE, data |-> [raw |-> ""]]

ApiIdle ==
  [pc |-> "idle", fn |-> "", args |-> [content |-> ""], auth |-> "",
   req |-> [method |-> "", path |-> ""], reqs |-> 0,
   net |-> "none", resp |-> NoApiResponse, res |-> [kind |-> "none"], out |-> [kind |-> "none"]]

\* the call after fetch has rejected: apiRequest throws the network error
ApiAfterReject(a) ==
  LET err == [kind |-> "network", path |-> a.req.path, detail |-> "fetch failed"]
  IN [a EXCEPT !.pc = "idle", !.net = "rejected", !.res = err, !.out = err]

\* mutant: an API error invalidates the cached credential
CacheAfterApiRequestInvalidating(cache, res) ==
  IF res.kind = "api" THEN Null ELSE cache

\* the token cache after apiRequest has ended with res: apiRequest never
\* assigns cachedToken
CacheAfterApiRequest(cache, res) == cache

\* an exported function is called: its synchronous part up to the fetch in
\* apiRequest
ApiDispatch(fn, args, token) ==
  /\ api = ApiIdle
  /\ fn \in {"sendC2CMessage", "sendGroupMessage"} => ReplySeq(msgSeqTracker, args) <= MaxSeq
  /\ api' = [ApiIdle EXCEPT !.pc = "fetch", !.fn = fn, !.args = args,
                            !.auth = <<"QQBot", token>>,
                            !.req = DispatchRequest(fn, args, msgSeqTracker),
                            !.reqs = 1, !.net = "pending"]
  /\ msgSeqTracker' = DispatchTracker(fn, args, msgSeqTracker)
  /\ UNCHANGED <<trackerHist, tokenVars, snd, prevSeq, burnt, race>>

\* await fetch(url, options) rejects
ApiFetchRejects ==
  /\ api.pc = "fetch"
  /\ api' = ApiAfterReject(api)
  /\ UNCHANGED <<trackerVars, tokenVars, snd, prevSeq, burnt, race>>

\* await fetch(url, options) resolves
ApiFetchResolves ==
  /\ api.pc = "fetch"
  /\ \E r \in ApiResponses : api' = [api EXCEPT !.pc = "json", !.net = "resolved", !.resp = r]
  /\ UNCHANGED <<trackerVars, tokenVars, snd, prevSeq, burnt, race>>

\* await res.json() settles, the rest of apiRequest runs and the exported
\* function returns or throws
ApiJsonSettles ==
  /\ api.pc = "json"
  /\ LET res == ApiResult(api.resp, api.req.path) IN
       /\ api' = [api EXCEPT !.pc = "idle", !.res = res, !.out = DispatchResult(api.fn, res)]
       /\ cachedToken' = CacheAfterApiRequest(cachedToken, res)
  /\ UNCHANGED <<trackerVars, now, ticks, tok, trip, snd, prevSeq, burnt, race>>

\* the caller has the result or the error of its call in hand
ApiReturns ==
  /\ api.pc = "idle"
  /\ api.fn # ""
  /\ api' = ApiIdle
  /\ UNCHANGED <<trackerVars, tokenVars, snd, prevSeq, burnt, race>>

\* clearTokenCache() while an API call may be in flight
ApiClearTokenCache ==
  /\ cachedToken # Null
  /\ ClearTokenCache
  /\ UNCHANGED <<trackerVars, snd, api, prevSeq, burnt, race>>

ApiNext ==
  \/ \E t \in {"T1", "T2"} : ApiDispatch("getGatewayUrl", [content |-> ""], t)
  \/ \E t \in {"T1", "T2"}, a \in ApiTextArgs : ApiDispatch("sendC2CMessage", a, t)
  \/ \E t \in {"T1", "T2"}, a \in ApiTextArgs : ApiDispatch("sendChannelMessage", a, t)
  \/ \E t \in {"T1", "T2"}, a \in ApiTextArgs : ApiDispatch("sendGroupMessage", a, t)
  \/ \E t \in {"T1", "T2"} : ApiDispatch("sendProactiveC2CMessage", [content |-> "hi"], t)
  \/ \E t \in {"T1", "T2"} : ApiDispatch("sendProactiveGroupMessage", [content |-> "hi"], t)
  \/ \E t \in {"T1", "T2"}, a \in UploadArgs : ApiDispatch("uploadImage", a, t)
  \/ \E t \in {"T1", "T2"}, a \in ImageArgs : ApiDispatch("sendC2CImageMessage", a, t)
  \/ \E t \in {"T1", "T2"}, a \in ImageArgs : ApiDispatch("sendChannelImageMessage", a, t)
  \/ \E t \in {"T1", "T2"}, a \in ImageArgs : ApiDispatch("sendGroupImageMessage", a, t)
  \/ ApiFetchRejects
  \/ ApiFetchResolves
  \/ ApiJsonSettles
  \/ ApiReturns
  \/ ApiClearTokenCache

(* --------------------------- specifications --------------------------- *)

\* what has happened to the identifier of a reply since the reply took its
\* number: evicted from the tracker, numbered again by another reply
NoFlight == [evicted |-> FALSE, others |-> FALSE]

\* the identifier whose replies the history follows; the code treats all
\* identifiers alike
WatchedId == "m1"

\* id, seq: identifier and msg_seq of the most recent failed reply to
\* WatchedId; evicted, others: as in NoFlight, up to the next reply to id;
\* next: the msg_seq of that next reply, 0 until it is sent; fl: the same
\* record for the reply to WatchedId each caller has in flight
NoBurnt ==
  [id |-> "", seq |-> 0, evicted |-> FALSE, others |-> FALSE, next |-> 0,
   fl |-> [c \in Callers |-> NoFlight]]

\* the (appId, clientSecret) pairs getAccessToken is called with
Credentials ==
  {[appId |-> "app1", clientSecret |-> "s1"], [appId |-> "app2", clientSecret |-> "s2"]}

NoCredentials == [appId |-> "", clientSecret |-> ""]

\* args: the pair of each caller's current or last call; order: the callers
\* with a request in flight, in the order the requests were issued; done:
\* the callers whose last call refreshed the cache, in the order they
\* completed, since the cache was last cleared; overtaken: the callers
\* in flight while a call issued later completed a refresh; from: the pair
\* the cached token was obtained with
NoRace ==
  [args |-> [c \in Callers |-> NoCredentials], order |-> << >>, done |-> << >>,
   overtaken |-> {}, from |-> NoCredentials]

HistInit ==
  /\ api = ApiIdle
  /\ prevSeq = NoSeqCall
  /\ burnt = NoBurnt
  /\ race = NoRace

Init == TrackerInit /\ TokenInit /\ SendInit /\ HistInit

\* the tracker under direct calls of getNextMsgSeq
Next == (\E id \in MsgIds : GetNextMsgSeq(id)) /\ UNCHANGED <<api, prevSeq, burnt, race>>

Spec == Init /\ [][Next]_vars

\* the tracker under direct calls of getNextMsgSeq, remembering the call
\* before the last one when that call incremented a tracked identifier and
\* the last call evicted it
NextOrder ==
  /\ \E id \in MsgIds : GetNextMsgSeq(id)
  /\ prevSeq' = IF /\ lastSeq.called
                   /\ lastSeq.val >= 2
                   /\ TrackerHas(msgSeqTracker, lastSeq.id)
                   /\ ~TrackerHas(msgSeqTracker', lastSeq.id)
                  THEN lastSeq
                  ELSE NoSeqCall
  /\ UNCHANGED <<api, burnt, race>>

SpecOrder == Init /\ [][NextOrder]_vars

Without(q, c) == SelectSeq(q, LAMBDA x : x # c)

\* the callers issued before c among those in flight
IssuedBefore(q, c) == {q[i] : i \in {j \in 1..Len(q) : \E k \in j + 1..Len(q) : q[k] = c}}

\* mutant: the cache serves only the pair its token was obtained with
CacheHitKeyed(cache, t, creds, owner) == CacheIsFresh(cache, t) /\ creds = owner

\* the cache check of getAccessToken(appId, clientSecret): line 40 reads
\* neither argument, and the cache does not record the pair it was filled for
CacheHit(cache, t, creds, owner) == CacheIsFresh(cache, t)

\* getAccessToken(appId, clientSecret) up to its first await
GetAccessTokenFor(c, creds) ==
  /\ tok[c].pc = "idle"
  /\ IF CacheHit(cachedToken, now, creds, race.from)
       THEN /\ tok' = [tok EXCEPT ![c] = [IdleCaller EXCEPT !.out = "cached",
                                                          !.ret = cachedToken.token]]
            /\ race' = [race EXCEPT !.args[c] = creds,
                                    !.done = Without(@, c),
                                    !.overtaken = @ \ {c}]
       ELSE /\ tok' = [tok EXCEPT ![c] = [IdleCaller EXCEPT !.pc = "fetch", !.reqs = 1]]
            /\ race' = [race EXCEPT !.args[c] = creds,
                                    !.order = Append(@, c),
                                    !.done = Without(@, c),
                                    !.overtaken = @ \ {c}]
  /\ UNCHANGED <<cachedToken, now, ticks, trip>>

\* a step of the token cache together with the history of the calls
RefreshNext ==
  \/ \E c \in Callers, creds \in Credentials : GetAccessTokenFor(c, creds)
  \/ \E c \in Callers :
        /\ FetchTokenFails(c)
        /\ race' = [race EXCEPT !.order = Without(@, c)]
  \/ \E c \in Callers :
        /\ FetchTokenResolves(c)
        /\ UNCHANGED race
  \/ \E c \in Callers :
        /\ TokenJsonSettles(c)
        /\ race' = IF RefreshOutcome(tok[c].resp) = "fresh"
                     THEN [race EXCEPT !.order = Without(@, c),
                                       !.done = Append(@, c),
                                       !.overtaken = @ \cup IssuedBefore(race.order, c),
                                       !.from = race.args[c]]
                     ELSE [race EXCEPT !.order = Without(@, c)]
  \/ /\ ClearTokenCache
     /\ race' = [race EXCEPT !.done = << >>, !.from = NoCredentials]

\* concurrent getAccessToken calls with their arguments, at one instant
NextRefresh == RefreshNext /\ UNCHANGED <<trackerVars, snd, api, prevSeq, burnt>>

SpecRefresh == Init /\ [][NextRefresh]_vars

\* arguments of a reply: a msgId that is not empty
ReplyArgs == {a \in TextArgs : HasMsgId(a)}

\* the identifiers a step removes from the tracker
EvictedIds(tr, after) == {j \in MsgIds : TrackerHas(tr, j) /\ ~TrackerHas(after, j)}

\* the history once the reply that followed a failure has been recorded
\* for one step
BurntSettled == IF burnt.next # 0 THEN [NoBurnt EXCEPT !.fl = burnt.fl] ELSE burnt

\* the history after caller c has started a reply with args
BurntAfterStart(c, args) ==
  LET gone == EvictedIds(msgSeqTracker, ReplyTracker(msgSeqTracker, args))
      b    == BurntSettled
      fl   == [d \in Callers |->
                 IF d = c THEN NoFlight
                 ELSE IF snd[d].pc = "fetch" /\ snd[d].call.args.msgId = WatchedId
                   THEN [evicted |-> b.fl[d].evicted \/ WatchedId \in gone,
                         others  |-> b.fl[d].others \/ args.msgId = WatchedId]
                 ELSE NoFlight]
  IN IF b.id = "" THEN [b EXCEPT !.fl = fl]
     ELSE IF args.msgId = b.id
       THEN [b EXCEPT !.fl = fl, !.next = ReplySeq(msgSeqTracker, args)]
     ELSE [b EXCEPT !.fl = fl, !.evicted = @ \/ b.id \in gone]

\* the history after the reply of caller c has ended with outcome out
BurntAfterSettle(c, out) ==
  LET b  == BurntSettled
      fl == [b.fl EXCEPT ![c] = NoFlight]
  IN IF out = "ok" \/ snd[c].call.args.msgId # WatchedId THEN [b EXCEPT !.fl = fl]
     ELSE [id |-> WatchedId,
           seq |-> snd[c].req.body.msg_seq,
           evicted |-> b.fl[c].evicted,
           others |-> b.fl[c].others,
           next |-> 0,
           fl |-> fl]

\* replies in flight at once, with the history of the failed ones: the first
\* caller replies to WatchedId with sendC2CMessage, the second to any
\* identifier with sendGroupMessage
RetryNext ==
  \/ \E a \in ReplyArgs :
        /\ a.msgId = WatchedId
        /\ SendC2CMessage(1, a)
        /\ burnt' = BurntAfterStart(1, a)
  \/ \E a \in ReplyArgs :
        /\ SendGroupMessage(2, a)
        /\ burnt' = BurntAfterStart(2, a)
  \/ \E c \in Callers :
        ApiRequestSettles(c) /\ burnt' = BurntAfterSettle(c, snd'[c].out)

NextRetry == RetryNext /\ UNCHANGED <<api, prevSeq, race>>

SpecRetry == Init /\ [][NextRetry]_vars

\* the token cache under concurrent getAccessToken calls and clearTokenCache
NextToken == TokenNext /\ UNCHANGED <<trackerVars, snd, api, prevSeq, burnt, race>>

SpecToken == Init /\ [][NextToken]_vars

\* the send functions under concurrent callers; they reach the tracker
\* through getNextMsgSeq and take the access token as an argument
NextSend == SendNext /\ UNCHANGED <<api, prevSeq, burnt, race>>

SpecSend == Init /\ [][NextSend]_vars

\* one call of an exported function followed through apiRequest in full,
\* starting with or without a cached credential
InitApi ==
  /\ TrackerInit /\ SendInit /\ HistInit
  /\ now = 0 /\ ticks = 0 /\ tok = [c \in Callers |-> IdleCaller] /\ trip = NoTrip
  /\ cachedToken \in {Null, [token |-> "T1", expiresAt |-> ExpiresIn([access_token |-> "T1"]) * 1000]}

NextApi == ApiNext

SpecApi == InitApi /\ [][NextApi]_vars

(* ------------------------------ claims -------------------------------- *)

\* the identifier of the getNextMsgSeq call a step makes
CalledId == lastSeq'.id

\* C1 as stated: the n-th call made with an identifier returns n, counting
\* every call ever made with it.
C1_NthCallReturnsN ==
  lastSeq.called => lastSeq.val = seqCalls[lastSeq.id]

\* C1 amended: the n-th call made with an identifier since that identifier
\* was last untracked (never used, or removed by an eviction) returns n; the
\* count starts again at 1 after an eviction.
C1_NthCallSinceTrackedReturnsN ==
  lastSeq.called => lastSeq.val = seqSince[lastSeq.id]

\* an identifier was evicted, used again, and is at its second call since
C1_Witness ==
  /\ lastSeq.called
  /\ lastSeq.val = 2
  /\ seqCalls[lastSeq.id] > 2

\* C2 as stated: a call for b never changes another identifier's stored
\* counter and never removes its entry.
C2_OtherIdsUntouched ==
  [][\A a \in MsgIds \ {CalledId} :
        /\ TrackerHas(msgSeqTracker, a) <=> TrackerHas(msgSeqTracker', a)
        /\ TrackerGet(msgSeqTracker, a) = TrackerGet(msgSeqTracker', a)]_vars

\* C2 amended: a call for b never creates or changes the counter of another
\* identifier a; it removes a's entry only when b was untracked, the tracker
\* already held TRACKER_LIMIT entries and a is one of the EVICT_COUNT oldest.
C2_OtherIdsUntouchedUnlessEvicted ==
  [][\A a \in MsgIds \ {CalledId} :
        /\ TrackerHas(msgSeqTracker', a) =>
              /\ TrackerHas(msgSeqTracker, a)
              /\ TrackerGet(msgSeqTracker', a) = TrackerGet(msgSeqTracker, a)
        /\ (TrackerHas(msgSeqTracker, a) /\ ~TrackerHas(msgSeqTracker', a)) =>
              /\ ~TrackerHas(msgSeqTracker, CalledId)
              /\ Len(msgSeqTracker) = TRACKER_LIMIT
              /\ TrackerIndex(msgSeqTracker, a) <= EVICT_COUNT]_vars

\* one identifier has been evicted while another one, not the one just
\* called, is still tracked with every call made with it counted
C2_Witness ==
  /\ lastSeq.called
  /\ \E a \in MsgIds : seqCalls[a] > 0 /\ ~TrackerHas(msgSeqTracker, a)
  /\ \E a \in MsgIds \ {lastSeq.id} :
        /\ TrackerHas(msgSeqTracker, a)
        /\ TrackerGet(msgSeqTracker, a) = 2
        /\ seqCalls[a] = 2

\* C3: a call that makes the number of tracked identifiers exceed
\* TRACKER_LIMIT (1000) leaves at most TRACKER_LIMIT + 1 - EVICT_COUNT (501)
\* entries, and each of the TRACKER_LIMIT - EVICT_COUNT (500) most recently
\* inserted identifiers tracked before the call keeps its counter.
C3_EvictionKeepsNewest ==
  [][(~TrackerHas(msgSeqTracker, CalledId) /\ Len(msgSeqTracker) + 1 > TRACKER_LIMIT) =>
        /\ Len(msgSeqTracker') <= TRACKER_LIMIT + 1 - EVICT_COUNT
        /\ \A i \in (Len(msgSeqTracker) - (TRACKER_LIMIT - EVICT_COUNT) + 1)..Len(msgSeqTracker) :
              /\ TrackerHas(msgSeqTracker', msgSeqTracker[i].id)
              /\ TrackerGet(msgSeqTracker', msgSeqTracker[i].id) = msgSeqTracker[i].seq]_vars

\* an eviction has just happened: the called identifier is new and last, an
\* older identifier is gone, and a retained one still has counter 2
C3_Witness ==
  /\ lastSeq.called
  /\ lastSeq.val = 1
  /\ Len(msgSeqTracker) = TRACKER_LIMIT + 1 - EVICT_COUNT
  /\ msgSeqTracker[Len(msgSeqTracker)].id = lastSeq.id
  /\ Cardinality({a \in MsgIds : seqCalls[a] > 0 /\ ~TrackerHas(msgSeqTracker, a)}) >= EVICT_COUNT
  /\ \E i \in 1..Len(msgSeqTracker) : msgSeqTracker[i].seq = 2

\* caller c starts a getAccessToken call in this step
TokenCallBy(c) == tok[c].pc = "idle" /\ tok'[c] # tok[c]

\* C4: a getAccessToken call returns the cached token without a request when
\* a credential is cached and now < expiresAt - 300000; in every other case
\* it issues one request, and no later step of the call issues another.
C4_CachedOrOneRequest ==
  [][\A c \in Callers :
        /\ TokenCallBy(c) =>
             IF cachedToken # Null /\ now < cachedToken.expiresAt - 300000
               THEN /\ tok'[c].pc = "idle"
                    /\ tok'[c].out = "cached"
                    /\ tok'[c].ret = cachedToken.token
                    /\ tok'[c].reqs = 0
               ELSE /\ tok'[c].pc = "fetch"
                    /\ tok'[c].reqs = 1
        /\ tok[c].pc # "idle" => tok'[c].reqs = tok[c].reqs]_vars

\* one call was answered from the cache while another, started exactly at
\* the 5-minute boundary or later, is fetching
C4_Witness ==
  /\ cachedToken # Null
  /\ now >= cachedToken.expiresAt - 300000
  /\ \E c, d \in Callers :
        /\ tok[c].out = "cached" /\ tok[c].reqs = 0 /\ tok[c].pc = "idle"
        /\ tok[d].pc = "fetch" /\ tok[d].reqs = 1

\* C5 as stated: a call made less than 5 minutes before the cached expiry
\* issues no request and returns the cached token.
C5_InsideMarginServedFromCache ==
  [][\A c \in Callers :
        (/\ TokenCallBy(c)
         /\ cachedToken # Null
         /\ now < cachedToken.expiresAt
         /\ cachedToken.expiresAt - now < 300000) =>
            /\ tok'[c].reqs = 0
            /\ tok'[c].out = "cached"
            /\ tok'[c].ret = cachedToken.token]_vars

\* C5 amended: a call made more than 5 minutes before the cached expiry
\* issues no request, returns the cached token and leaves the cache as it is.
C5_OutsideMarginServedFromCache ==
  [][\A c \in Callers :
        (/\ TokenCallBy(c)
         /\ cachedToken # Null
         /\ cachedToken.expiresAt - now > 300000) =>
            /\ tok'[c].reqs = 0
            /\ tok'[c].out = "cached"
            /\ tok'[c].ret = cachedToken.token
            /\ cachedToken' = cachedToken]_vars

\* a call has just been served from a credential that has exactly 5 minutes
\* and 1 ms left
C5_Witness ==
  /\ cachedToken # Null
  /\ cachedToken.expiresAt - now = 300001
  /\ \E c \in Callers :
        /\ tok[c].out = "cached"
        /\ tok[c].ret = cachedToken.token
        /\ tok[c].reqs = 0

\* C6: after a getAccessToken call returned a token, clearTokenCache followed
\* directly by getAccessToken issues a new request and is never answered
\* from the cache; when that request succeeds the call returns the token of
\* the new response and caches it, with a lifetime of 7200 s when the
\* response has no expires_in.
C6_ClearThenGetRefreshes ==
  trip.stage \in {3, 4} =>
    LET w == tok[trip.who] IN
      /\ w.reqs = 1
      /\ w.out # "cached"
      /\ (trip.stage = 4 /\ w.out = "fresh") =>
            /\ w.ret = w.resp.data.access_token
            /\ cachedToken # Null
            /\ cachedToken.token = w.resp.data.access_token
            /\ "expires_in" \in DOMAIN w.resp.data =>
                  cachedToken.expiresAt = now + w.resp.data.expires_in * 1000
            /\ "expires_in" \notin DOMAIN w.resp.data =>
                  cachedToken.expiresAt = now + 7200 * 1000

\* the round trip has just ended: T1 was returned, the cache cleared, and
\* the second call returned T2 from a response without expires_in
C6_Witness ==
  /\ trip.stage = 4
  /\ trip.t1 = "T1"
  /\ tok[trip.who].out = "fresh"
  /\ tok[trip.who].ret = "T2"
  /\ "expires_in" \notin DOMAIN tok[trip.who].resp.data
  /\ now > 0

SendCallBy(c) == snd[c].pc = "idle" /\ snd'[c].pc = "fetch"

ReplyFns == {"sendC2CMessage", "sendGroupMessage"}

ProactiveFns == {"sendProactiveC2CMessage", "sendProactiveGroupMessage"}

ChannelFns == {"sendChannelMessage", "sendChannelImageMessage"}

\* C8 as stated: a direct or group text send given any replyToId m sends
\* msg_id = m and msg_seq = the tracker's counter for m plus one, and
\* advances that counter by one.
C8_ReplyCarriesNextSeq ==
  [][\A c \in Callers :
        (/\ SendCallBy(c)
         /\ snd'[c].call.fn \in ReplyFns
         /\ "msgId" \in DOMAIN snd'[c].call.args) =>
            LET m == snd'[c].call.args.msgId
                b == snd'[c].req.body
            IN /\ "msg_id" \in DOMAIN b
               /\ b.msg_id = m
               /\ b.msg_seq = TrackerGet(msgSeqTracker, m) + 1
               /\ TrackerGet(msgSeqTracker', m) = TrackerGet(msgSeqTracker, m) + 1]_vars

\* C8 amended: the same for every replyToId m other than the empty string.
C8_NonEmptyReplyCarriesNextSeq ==
  [][\A c \in Callers :
        (/\ SendCallBy(c)
         /\ snd'[c].call.fn \in ReplyFns
         /\ "msgId" \in DOMAIN snd'[c].call.args
         /\ snd'[c].call.args.msgId # "") =>
            LET m == snd'[c].call.args.msgId
                b == snd'[c].req.body
            IN /\ "msg_id" \in DOMAIN b
               /\ b.msg_id = m
               /\ "msg_seq" \in DOMAIN b
               /\ b.msg_seq = TrackerGet(msgSeqTracker, m) + 1
               /\ TrackerGet(msgSeqTracker', m) = TrackerGet(msgSeqTracker, m) + 1]_vars

\* a second reply to m1 is in flight on the group surface with msg_seq 2,
\* after a first one on the direct surface
C8_Witness ==
  \E c, d \in Callers :
    /\ snd[c].pc = "fetch"
    /\ snd[c].call = [fn |-> "sendC2CMessage", args |-> [content |-> "hi", msgId |-> "m1"]]
    /\ snd[c].req.body.msg_seq = 1
    /\ snd[d].pc = "fetch"
    /\ snd[d].call.fn = "sendGroupMessage"
    /\ snd[d].req.body = [content |-> "hi", msg_type |-> 0, msg_seq |-> 2, msg_id |-> "m1"]
    /\ TrackerGet(msgSeqTracker, "m1") = 2

\* C9 as stated: every direct or group text send without a replyToId, through
\* the reply functions or the proactive ones, sends msg_seq = 1 and no
\* msg_id and leaves the tracker alone.
C9_NoReplySendsSeqOne ==
  [][\A c \in Callers :
        (/\ SendCallBy(c)
         /\ \/ snd'[c].call.fn \in ReplyFns /\ "msgId" \notin DOMAIN snd'[c].call.args
            \/ snd'[c].call.fn \in ProactiveFns) =>
            LET b == snd'[c].req.body
            IN /\ "msg_seq" \in DOMAIN b
               /\ b.msg_seq = 1
               /\ "msg_id" \notin DOMAIN b
               /\ msgSeqTracker' = msgSeqTracker]_vars

\* C9 amended: sendC2CMessage and sendGroupMessage without msgId send
\* msg_seq = 1 and no msg_id; sendProactiveC2CMessage and
\* sendProactiveGroupMessage send neither msg_seq nor msg_id; none of them
\* touches the tracker.
C9_NoReplySendsSeqOneOrNone ==
  [][\A c \in Callers :
        /\ (/\ SendCallBy(c)
            /\ snd'[c].call.fn \in ReplyFns
            /\ "msgId" \notin DOMAIN snd'[c].call.args) =>
              LET b == snd'[c].req.body
              IN /\ "msg_seq" \in DOMAIN b
                 /\ b.msg_seq = 1
                 /\ "msg_id" \notin DOMAIN b
                 /\ msgSeqTracker' = msgSeqTracker
        /\ (SendCallBy(c) /\ snd'[c].call.fn \in ProactiveFns) =>
              LET b == snd'[c].req.body
              IN /\ "msg_seq" \notin DOMAIN b
                 /\ "msg_id" \notin DOMAIN b
                 /\ msgSeqTracker' = msgSeqTracker]_vars

\* a direct send without msgId and a proactive group send are in flight
\* while the tracker holds a counter
C9_Witness ==
  \E c, d \in Callers :
    /\ snd[c].pc = "fetch"
    /\ snd[c].call = [fn |-> "sendC2CMessage", args |-> [content |-> "hi"]]
    /\ snd[c].req.body = [content |-> "hi", msg_type |-> 0, msg_seq |-> 1]
    /\ snd[d].pc = "fetch"
    /\ snd[d].call.fn = "sendProactiveGroupMessage"
    /\ snd[d].req.body = [content |-> "hi", msg_type |-> 0]
    /\ msgSeqTracker = <<[id |-> "m2", seq |-> 2]>>

\* C10 as stated: a channel send includes msg_id only when a reply target is
\* given, never msg_seq, and leaves the tracker alone.
C10_ChannelMsgIdOnlyOnReply ==
  [][\A c \in Callers :
        (SendCallBy(c) /\ snd'[c].call.fn \in ChannelFns) =>
            LET b == snd'[c].req.body
            IN /\ "msg_id" \in DOMAIN b => "msgId" \in DOMAIN snd'[c].call.args
               /\ "msg_seq" \notin DOMAIN b
               /\ msgSeqTracker' = msgSeqTracker]_vars

\* C10 amended: sendChannelMessage includes msg_id, equal to the reply
\* target, exactly when a non-empty reply target is given;
\* sendChannelImageMessage, which takes no reply target, always includes
\* msg_id set to the empty string; neither includes msg_seq or changes the
\* tracker.
C10_ChannelTextMsgIdOnlyOnReply ==
  [][\A c \in Callers :
        /\ (SendCallBy(c) /\ snd'[c].call.fn = "sendChannelMessage") =>
              LET b == snd'[c].req.body
                  a == snd'[c].call.args
              IN /\ "msg_id" \in DOMAIN b <=> ("msgId" \in DOMAIN a /\ a.msgId # "")
                 /\ "msg_id" \in DOMAIN b => b.msg_id = a.msgId
        /\ (SendCallBy(c) /\ snd'[c].call.fn = "sendChannelImageMessage") =>
              /\ "msg_id" \in DOMAIN snd'[c].req.body
              /\ snd'[c].req.body.msg_id = ""
        /\ (SendCallBy(c) /\ snd'[c].call.fn \in ChannelFns) =>
              /\ "msg_seq" \notin DOMAIN snd'[c].req.body
              /\ msgSeqTracker' = msgSeqTracker]_vars

\* a channel reply to m1 and a channel image send are in flight, and m1,
\* tracked from an earlier direct reply, still has counter 1
C10_Witness ==
  \E c, d \in Callers :
    /\ snd[c].pc = "fetch"
    /\ snd[c].call.fn = "sendChannelMessage"
    /\ snd[c].req.body = [content |-> "hi", msg_id |-> "m1"]
    /\ snd[d].pc = "fetch"
    /\ snd[d].call.fn = "sendChannelImageMessage"
    /\ snd[d].req.body.msg_id = ""
    /\ msgSeqTracker = <<[id |-> "m1", seq |-> 1]>>

\* the apiRequest call followed in full has ended
ApiEnded == api.pc = "idle" /\ api.fn # ""

\* C11: apiRequest ends in exactly one way, decided in this order: fetch
\* rejects -> network error; the body does not parse, whatever the status ->
\* parse error; non-ok status with a parsed body -> API error carrying the
\* body's message field, or the serialized body when it has none; otherwise
\* the parsed body is returned.  Every error carries the request path, and a
\* non-ok answer with message "bad request" makes the exported function
\* fail with an API error carrying "bad request".
C11_EveryOutcomeClassified ==
  ApiEnded =>
    /\ api.net = "rejected" =>
          /\ api.res.kind = "network"
          /\ api.res.path = api.req.path
    /\ (api.net = "resolved" /\ ~api.resp.parses) =>
          /\ api.res.kind = "parse"
          /\ api.res.path = api.req.path
    /\ (api.net = "resolved" /\ api.resp.parses /\ ~api.resp.ok) =>
          /\ api.res.kind = "api"
          /\ api.res.path = api.req.path
          /\ api.res.detail = IF "message" \in DOMAIN api.resp.data
                                THEN api.resp.data.message
                                ELSE Stringify(api.resp.data)
          /\ api.out = api.res
    /\ (api.net = "resolved" /\ api.resp.parses /\ api.resp.ok) =>
          /\ api.res.kind = "ok"
          /\ api.res.value = api.resp.data

\* C12: uploadImage sends {url: imageData} for an http-prefixed argument,
\* {file_data: everything after the first comma} for a data:-prefixed one
\* and {file_data: imageData} for any other; exactly one of url and
\* file_data is in the payload.
C12_UploadPayloadByPrefix ==
  api.fn = "uploadImage" =>
    LET s == api.args.imageData
        b == api.req.body
    IN /\ StartsWith(s, HTTP) => b = [url |-> s]
       /\ (~StartsWith(s, HTTP) /\ StartsWith(s, DATA)) =>
             /\ "file_data" \in DOMAIN b
             /\ Commas(s) # {} => b.file_data = SubSeq(s, Least(Commas(s)) + 1, Len(s))
       /\ (~StartsWith(s, HTTP) /\ ~StartsWith(s, DATA)) => b = [file_data |-> s]
       /\ ("url" \in DOMAIN b) # ("file_data" \in DOMAIN b)

\* C13: every call of an exported function issues exactly one HTTP request,
\* however it ends, and no step of the call changes the token cache; in
\* particular the cache is the same after an API error as before.
C13_OneRequestNoCacheChange ==
  [][/\ (api'.pc # "idle" \/ api'.fn # "") => api'.reqs = 1
     /\ api' # api => cachedToken' = cachedToken
     /\ cachedToken' # cachedToken => (cachedToken' = Null /\ api' = api)]_vars

\* a call has ended in an API error after one request and the credential
\* cached before it is still cached
C13_Witness ==
  /\ ApiEnded
  /\ api.res.kind = "api"
  /\ api.reqs = 1
  /\ cachedToken # Null
  /\ cachedToken.token = "T1"

\* C14: eviction follows insertion order, not recency of use.  A call that
\* inserts a new identifier and makes the count exceed TRACKER_LIMIT removes
\* exactly the EVICT_COUNT identifiers at the head of the insertion order,
\* whenever they were last incremented, and leaves the others as they were;
\* a call on a tracked identifier leaves the order and the set of tracked
\* identifiers as they are.
C14_EvictionByInsertionOrder ==
  [][LET id   == CalledId
         keys == TrackerKeys(msgSeqTracker)
     IN /\ TrackerHas(msgSeqTracker, id) =>
              TrackerKeys(msgSeqTracker') = keys
        /\ (~TrackerHas(msgSeqTracker, id) /\ Len(keys) + 1 <= TRACKER_LIMIT) =>
              TrackerKeys(msgSeqTracker') = Append(keys, id)
        /\ (~TrackerHas(msgSeqTracker, id) /\ Len(keys) + 1 > TRACKER_LIMIT) =>
              /\ TrackerKeys(msgSeqTracker') = SubSeq(Append(keys, id), EVICT_COUNT + 1, Len(keys) + 1)
              /\ \A i \in 1..EVICT_COUNT : ~TrackerHas(msgSeqTracker', keys[i])
              /\ \A i \in EVICT_COUNT + 1..Len(keys) :
                    TrackerGet(msgSeqTracker', keys[i]) = TrackerGet(msgSeqTracker, keys[i])
    ]_vars

\* the last call evicted the identifier that the call before it had
\* incremented, while an identifier used less recently is retained
C14_Witness ==
  /\ lastSeq.called /\ prevSeq.called
  /\ prevSeq.val >= 2
  /\ prevSeq.id # lastSeq.id
  /\ ~TrackerHas(msgSeqTracker, prevSeq.id)
  /\ Len(msgSeqTracker) = TRACKER_LIMIT + 1 - EVICT_COUNT
  /\ \E i \in 1..Len(msgSeqTracker) : msgSeqTracker[i].id # lastSeq.id

\* the credential a successful call of caller c writes at time t
WrittenBy(c, t) ==
  [token |-> tok[c].resp.data.access_token,
   expiresAt |-> t + ExpiresIn(tok[c].resp.data) * 1000]

\* C15: a getAccessToken call that finds the cache empty or stale issues
\* its own token request, whether or not another call is in flight; every
\* call that completes successfully overwrites the cache with its own
\* credential; so once two calls have completed successfully the cache
\* holds the credential of the one that completed last, whichever was
\* issued first.
C15_LastWriterWins ==
  [][/\ \A c \in Callers :
          /\ (tok[c].pc = "idle" /\ tok'[c] # tok[c] /\ ~CacheIsFresh(cachedToken, now)) =>
                /\ tok'[c].pc = "fetch"
                /\ tok'[c].reqs = 1
          /\ (tok[c].pc = "json" /\ tok'[c].pc = "idle" /\ tok'[c].out = "fresh") =>
                /\ cachedToken' = WrittenBy(c, now)
                /\ tok'[c].ret = cachedToken'.token
     /\ Len(race'.done) = 2 =>
          /\ cachedToken' = [token |-> tok'[race'.done[2]].ret,
                             expiresAt |-> now' + ExpiresIn(tok'[race'.done[2]].resp.data) * 1000]
    ]_vars

\* both callers were in flight at once, the one issued first completed last,
\* and the cache holds its credential, not the other's
C15_Witness ==
  /\ Len(race.done) = 2
  /\ race.done[2] \in race.overtaken
  /\ tok[race.done[1]].out = "fresh" /\ tok[race.done[2]].out = "fresh"
  /\ tok[race.done[1]].ret # tok[race.done[2]].ret
  /\ cachedToken # Null
  /\ cachedToken.token = tok[race.done[2]].ret

\* C20: the cache is keyed by nothing.  While the cached credential is more
\* than five minutes from expiry, a getAccessToken call made with a pair
\* other than the one the token was obtained with returns the cached token
\* and issues no request.
C20_CacheServesAnyPair ==
  [][\A c \in Callers :
        (/\ tok[c].pc = "idle"
         /\ race'.args[c] # race.args[c] \/ tok'[c] # tok[c]
         /\ CacheIsFresh(cachedToken, now)
         /\ race'.args[c] # race.from) =>
           /\ tok'[c].pc = "idle"
           /\ tok'[c].out = "cached"
           /\ tok'[c].ret = cachedToken.token
           /\ tok'[c].reqs = 0
           /\ cachedToken' = cachedToken
    ]_vars

\* a call made with one pair has been served the token obtained with the
\* other pair
C20_Witness ==
  \E c \in Callers :
    /\ tok[c].pc = "idle" /\ tok[c].out = "cached" /\ tok[c].reqs = 0
    /\ race.from \in Credentials
    /\ race.args[c] \in Credentials
    /\ race.args[c] # race.from
    /\ CacheIsFresh(cachedToken, now)
    /\ tok[c].ret = cachedToken.token

\* C17: under any interleaving of getAccessToken and clearTokenCache the
\* cache is empty or holds the token and the expiry of one successful token
\* response: whenever the cache changes it becomes empty, or it becomes the
\* access_token of the response processed in that step together with the
\* time of that step plus the response's expires_in (7200 when absent)
\* times 1000 ms.  Token and expiry never come from two responses.
C17_TokenAndExpiryFromOneResponse ==
  [][cachedToken' # cachedToken =>
       \/ cachedToken' = Null
       \/ \E c \in Callers :
            /\ tok[c].pc = "json" /\ tok'[c].pc = "idle"
            /\ tok[c].resp.parses
            /\ "access_token" \in DOMAIN tok[c].resp.data
            /\ cachedToken' =
                 [token |-> tok[c].resp.data.access_token,
                  expiresAt |-> now + 1000 * (IF "expires_in" \in DOMAIN tok[c].resp.data
                                                THEN tok[c].resp.data.expires_in
                                                ELSE 7200)]
    ]_vars

\* a credential has been replaced, after time has passed, by one with another
\* token and another lifetime, and the cache holds the second one whole
C17_Witness ==
  \E c, d \in Callers :
    /\ c # d
    /\ tok[c].pc = "idle" /\ tok[c].out = "fresh"
    /\ tok[d].pc = "idle" /\ tok[d].out = "fresh"
    /\ tok[c].ret # tok[d].ret
    /\ ExpiresIn(tok[c].resp.data) # ExpiresIn(tok[d].resp.data)
    /\ now > 0
    /\ cachedToken = [token |-> tok[c].ret, expiresAt |-> now + ExpiresIn(tok[c].resp.data) * 1000]

\* C18: after getNextMsgSeq(id) has returned v, also when the call swept the
\* map, the tracker maps id to v (a call never evicts its own identifier)
\* and holds at most TRACKER_LIMIT identifiers.
C18_CalledIdStaysTracked ==
  lastSeq.called =>
    /\ TrackerHas(msgSeqTracker, lastSeq.id)
    /\ TrackerGet(msgSeqTracker, lastSeq.id) = lastSeq.val
    /\ Len(msgSeqTracker) <= TRACKER_LIMIT

\* the last call re-inserted an identifier evicted earlier, swept the map and
\* left its own identifier as the newest entry
C18_Witness ==
  /\ lastSeq.called
  /\ lastSeq.val = 1
  /\ seqCalls[lastSeq.id] = 2
  /\ Len(msgSeqTracker) = TRACKER_LIMIT + 1 - EVICT_COUNT
  /\ msgSeqTracker[Len(msgSeqTracker)] = [id |-> lastSeq.id, seq |-> 1]

\* caller c starts, in this step, the first reply to the identifier of the
\* failed reply since that reply failed
NextReplyAfterFailure(c) ==
  /\ SendCallBy(c)
  /\ snd'[c].call.fn \in ReplyFns
  /\ HasMsgId(snd'[c].call.args)
  /\ burnt.id # "" /\ burnt.next = 0
  /\ snd'[c].call.args.msgId = burnt.id

====
